---------------------------- MODULE Spec2Model ----------------------------
(***************************************************************************)
(* Model of gitlsf's line-counting engine (src/src/counter.rs) and of the  *)
(* error values it builds (src/src/error.rs).                              *)
(*                                                                         *)
(* File contents are byte sequences held run-length encoded: a content is  *)
(* a sequence of runs [b |-> byte, n |-> length], n >= 1, so that files of *)
(* the real threshold sizes (100 KB, 1 MB) fit in a state.  Only three     *)
(* byte values matter to the scanner: '\n', '\r' and any other byte.       *)
(*                                                                         *)
(* The file system is fixed during a behaviour (no file is written while   *)
(* it is being counted, which is also what the safety comment on           *)
(* count_lines_mmap assumes).                                              *)
(***************************************************************************)
EXTENDS Integers, Sequences, FiniteSets, TLC

VARIABLES
    fs,            \* resolved full path -> file on disk
    input,         \* the path list handed to the batch functions
    arg,           \* count_lines: the relative path of the last call
    ret,           \* count_lines: what the last call returned
    calls,         \* count_lines: the system calls the last call made
    pc,            \* count_lines_parallel: position
    small_files,   \* count_lines_parallel: the small group (FileInfo)
    large_files,   \* count_lines_parallel: the large group, sorted
    small_next,    \* index of the next small entry to scan
    small_counts,  \* count_lines_parallel: small-group FileCounts
    large_state,   \* per large entry: "todo" | "running" | "done"
    large_out,     \* per large entry: what its closure returned
    completed,     \* large entries in the order their scans completed
    par_summary,   \* what count_lines_parallel returned
    small_log,     \* count_lines_parallel: the scanner calls of the loop
    mappings,      \* count_lines_parallel: the memory maps that exist
    seq_next,      \* count_lines_sequential: index of the next path
    seq_counts,    \* count_lines_sequential: the FileCounts so far
    seq_log,       \* count_lines_sequential: paths scanned, in order
    seq_summary,   \* what count_lines_sequential returned
    filter,        \* the FileFilter
    listed,        \* filter_files: the paths given to it
    filtered,      \* filter_files: what it returned for them
    refiltered,    \* filter_files: what it returned for its own output
    verdict,       \* should_count: the last call and what it returned
    git_output,    \* what `git ls-files` gives in the base directory
    repo_pc,       \* count_repository_with_filter: position
    repo_ret       \* what count_repository_with_filter returned

par_vars == <<small_files, large_files, small_next, small_counts,
              large_state, large_out, completed, par_summary, small_log,
              mappings>>

seq_vars == <<seq_next, seq_counts, seq_log, seq_summary>>

batch_vars == <<input, pc, par_vars, seq_vars>>

filter_vars == <<listed, filtered, refiltered, verdict>>

repo_vars == <<git_output, repo_pc, repo_ret>>

lib_vars == <<filter, filter_vars, repo_vars>>

vars == <<fs, arg, ret, calls, batch_vars, lib_vars>>

---------------------------------------------------------------------------
(* Bounds of the model *)

\* longest explicit byte tail of a generated file content
MaxTail == 2
\* most read() calls of one scan that return fewer bytes than were available
MaxShortReads == 2
\* as MaxShortReads, for a scan made by a batch function
MaxBatchShortReads == 1
\* longest path list handed to a batch function
MaxFiles == 3
\* most scans of the large group running at the same time (the pool size)
NumWorkers == 2
\* most calls of each builder method on one FileFilter
MaxExtras == 1

---------------------------------------------------------------------------
(* Program constants, counter.rs:19-27 *)

BUFFER_SIZE == 2 * 1024 * 1024
MMAP_THRESHOLD == 1024 * 1024
PARALLEL_THRESHOLD == 100 * 1024

---------------------------------------------------------------------------
(* Bytes and contents *)

NL == "\\n"
CR == "\\r"
Bytes == {NL, CR, "x"}

None == "None"

\* the bytes of a run-length encoded content
RECURSIVE Size(_)
Size(c) == IF c = <<>> THEN 0 ELSE Head(c).n + Size(Tail(c))

\* &buffer[..k] of what is left: the first k bytes of c
RECURSIVE TakeBytes(_, _)
TakeBytes(c, k) ==
    IF k = 0 \/ c = <<>> THEN <<>>
    ELSE IF Head(c).n <= k
         THEN <<Head(c)>> \o TakeBytes(Tail(c), k - Head(c).n)
         ELSE <<[b |-> Head(c).b, n |-> k]>>

\* c without its first k bytes (the file position after reading k bytes)
RECURSIVE DropBytes(_, _)
DropBytes(c, k) ==
    IF k = 0 \/ c = <<>> THEN c
    ELSE IF Head(c).n <= k
         THEN DropBytes(Tail(c), k - Head(c).n)
         ELSE <<[b |-> Head(c).b, n |-> Head(c).n - k]>> \o Tail(c)

\* memchr_iter(needle, haystack).count(): the occurrences of one byte
RECURSIVE memchr_count(_, _)
memchr_count(needle, haystack) ==
    IF haystack = <<>> THEN 0
    ELSE (IF Head(haystack).b = needle THEN Head(haystack).n ELSE 0)
         + memchr_count(needle, Tail(haystack))

\* slice.last().copied(): Option<u8>
last(chunk) == IF chunk = <<>> THEN None ELSE chunk[Len(chunk)].b

---------------------------------------------------------------------------
(* Paths *)

\* A path is its sequence of components; an absolute path starts with "/".
Base == <<"/", "repo">>

IsAbsolute(p) == p # <<>> /\ Head(p) = "/"

\* Path::join: an absolute argument replaces the base
Join(base, p) == IF IsAbsolute(p) THEN p ELSE base \o p

\* What the operating system does with a path it is given: "." components
\* name the directory they are in.
RECURSIVE Resolve(_)
Resolve(p) ==
    IF p = <<>> THEN <<>>
    ELSE IF Head(p) = "." THEN Resolve(Tail(p))
         ELSE <<Head(p)>> \o Resolve(Tail(p))

\* the relative paths a caller may supply; <<".", "a">> names the file of <<"a">>
RelPaths == {<<"a">>, <<".", "a">>, <<"b">>}

DiskPaths == {Resolve(Join(Base, p)) : p \in RelPaths}

---------------------------------------------------------------------------
(* Files and the system calls on them *)

\* mode: "ok"       every call succeeds
\*       "missing"  no such file: stat and open fail (ENOENT)
\*       "noperm"   stat succeeds, open fails (EACCES)
\*       "fstaterr" open succeeds, metadata of the open file fails
\*       "readerr"  read fails once errAt bytes have been delivered (EIO;
\*                  a directory is errAt = 0 with EISDIR)
\*       "mmaperr"  mapping the file fails (ENOMEM, ENODEV); reads succeed
FileOf(mode, content, errAt) ==
    [mode |-> mode, content |-> content, errAt |-> errAt]

OsOk(v) == [ok |-> TRUE, val |-> v, cause |-> None]
OsErr(cause) == [ok |-> FALSE, val |-> 0, cause |-> cause]

\* std::fs::metadata(path): stat
fs_metadata(files, full_path) ==
    LET f == files[Resolve(full_path)]
    IN  IF f.mode = "missing" THEN OsErr("ENOENT")
        ELSE OsOk(Size(f.content))

\* File::open(path)
File_open(files, full_path) ==
    LET f == files[Resolve(full_path)]
    IN  IF f.mode = "missing" THEN OsErr("ENOENT")
        ELSE IF f.mode = "noperm" THEN OsErr("EACCES")
        ELSE OsOk(f)

\* f.metadata(): fstat, .len()
File_metadata(f) ==
    IF f.mode = "fstaterr" THEN OsErr("EBADF") ELSE OsOk(Size(f.content))

\* Mmap::map(file): the whole content, or a failure
Mmap_map(f) ==
    IF f.mode = "mmaperr" THEN OsErr("ENOMEM") ELSE OsOk(f.content)

\* How many bytes a read() returns when `avail` > 0 could be returned: all
\* of them, or fewer (a short read).
ShortReadKinds == {"one", "half", "allbutone"}

ReadLen(kind, avail) ==
    CASE kind = "one"       -> 1
      [] kind = "half"      -> IF avail >= 2 THEN avail \div 2 ELSE avail
      [] kind = "allbutone" -> IF avail >= 2 THEN avail - 1 ELSE avail
      [] OTHER              -> avail

\* the lengths-of-reads schedules a scan may meet: up to MaxShortReads
\* chosen read lengths, every later read filling as much as it can
Schedules == UNION {[1..k -> ShortReadKinds] : k \in 0..MaxShortReads}

\* f.read(&mut buffer) at file position pos: the number of bytes read, or an
\* error.  A read never returns bytes beyond a pending error's offset.
File_read(f, pos, buflen, kind) ==
    LET size  == Size(f.content)
        limit == IF f.mode = "readerr" /\ f.errAt < size THEN f.errAt ELSE size
        avail == IF limit - pos < buflen THEN limit - pos ELSE buflen
    IN  IF f.mode = "readerr" /\ pos >= f.errAt THEN OsErr("EIO")
        ELSE IF avail <= 0 THEN OsOk(0)
        ELSE OsOk(ReadLen(kind, avail))

---------------------------------------------------------------------------
(* error.rs *)

\* an error value's variant (kind) and fields; the Git variant has no path
NoPath == <<>>
NoError == [kind |-> None, message |-> None, path |-> NoPath, source |-> None]

\* GitlsfError::git_with_source
git_with_source(message, source) ==
    [kind |-> "Git", message |-> message, path |-> NoPath, source |-> source]

\* mutant: a read failure reported with the variant that has no path
io_without_path(path, source) == git_with_source("Failed to read file", source)

\* GitlsfError::io
io(path, source) ==
    [kind |-> "Io", message |-> None, path |-> path, source |-> source]

Ok(v) == [tag |-> "Ok", val |-> v, err |-> NoError]
Err(e) == [tag |-> "Err", val |-> 0, err |-> e]

---------------------------------------------------------------------------
(* counter.rs: the line scanner *)

\* mutant: the mapped scan without the trailing adjustment
count_lines_mmap_no_partial(f) ==
    LET m == Mmap_map(f)
    IN  IF ~m.ok
        THEN Err(git_with_source("Failed to create memory map", m.cause))
        ELSE Ok(memchr_count(NL, m.val))

\* count_lines_mmap
count_lines_mmap(f) ==
    LET m == Mmap_map(f)
    IN  IF ~m.ok
        THEN Err(git_with_source("Failed to create memory map", m.cause))
        ELSE LET mmap  == m.val
                 count == memchr_count(NL, mmap)
                 has_trailing_newline ==
                     IF last(mmap) = None THEN FALSE ELSE last(mmap) = NL
                 final_count ==
                     IF mmap # <<>> /\ ~has_trailing_newline
                     THEN count + 1
                     ELSE count
             IN  Ok(final_count)

\* mutant: the trailing partial line is not counted
buffered_finish_no_partial(count, last_byte) == Ok(count)

\* the trailing adjustment after the read loop of count_lines_buffered
buffered_finish(count, last_byte) ==
    IF last_byte # None /\ last_byte # NL THEN Ok(count + 1) ELSE Ok(count)

\* mutant: the trailing-line adjustment is made for every chunk
RECURSIVE buffered_loop_adjust_each(_, _, _, _, _, _)
buffered_loop_adjust_each(f, full_path, pos, count, last_byte, sched) ==
    LET kind == IF sched = <<>> THEN "full" ELSE Head(sched)
        rest == IF sched = <<>> THEN <<>> ELSE Tail(sched)
        r    == File_read(f, pos, BUFFER_SIZE, kind)
    IN  IF ~r.ok THEN Err(io(full_path, r.cause))
        ELSE IF r.val = 0 THEN Ok(count)
        ELSE LET chunk == TakeBytes(DropBytes(f.content, pos), r.val)
             IN  buffered_loop_adjust_each(
                     f, full_path, pos + r.val,
                     count + memchr_count(NL, chunk)
                           + (IF last(chunk) = NL THEN 0 ELSE 1),
                     last(chunk), rest)

\* mutant: a failing read ends the loop with the lines counted so far
RECURSIVE buffered_loop_keep_partial(_, _, _, _, _, _)
buffered_loop_keep_partial(f, full_path, pos, count, last_byte, sched) ==
    LET kind == IF sched = <<>> THEN "full" ELSE Head(sched)
        rest == IF sched = <<>> THEN <<>> ELSE Tail(sched)
        r    == File_read(f, pos, BUFFER_SIZE, kind)
    IN  IF ~r.ok \/ r.val = 0 THEN buffered_finish(count, last_byte)
        ELSE LET chunk == TakeBytes(DropBytes(f.content, pos), r.val)
             IN  buffered_loop_keep_partial(
                     f, full_path, pos + r.val,
                     count + memchr_count(NL, chunk), last(chunk), rest)

\* the read loop of count_lines_buffered, from file position pos
RECURSIVE buffered_loop(_, _, _, _, _, _)
buffered_loop(f, full_path, pos, count, last_byte, sched) ==
    LET kind == IF sched = <<>> THEN "full" ELSE Head(sched)
        rest == IF sched = <<>> THEN <<>> ELSE Tail(sched)
        r    == File_read(f, pos, BUFFER_SIZE, kind)
    IN  IF ~r.ok THEN Err(io(full_path, r.cause))
        ELSE IF r.val = 0 THEN buffered_finish(count, last_byte)
        ELSE LET chunk == TakeBytes(DropBytes(f.content, pos), r.val)
             IN  buffered_loop(f, full_path, pos + r.val,
                               count + memchr_count(NL, chunk),
                               last(chunk), rest)

\* count_lines_buffered
count_lines_buffered(f, full_path, sched) ==
    buffered_loop(f, full_path, 0, 0, None, sched)

\* mutant: a file of exactly the threshold size is mapped
use_mmap_from_threshold(file_size) == file_size >= MMAP_THRESHOLD

\* counter.rs:146: the test that selects the memory-mapped strategy
use_mmap(file_size) == file_size > MMAP_THRESHOLD

\* count_lines: the strategy by the size the metadata reports
count_lines(files, base, file, sched) ==
    LET full_path == Join(base, file)
        o == File_open(files, full_path)
    IN  IF ~o.ok THEN Err(io(full_path, o.cause))
        ELSE LET f == o.val
                 m == File_metadata(f)
             IN  IF ~m.ok THEN Err(io(full_path, m.cause))
                 ELSE IF use_mmap(m.val)
                      THEN count_lines_mmap(f)
                      ELSE count_lines_buffered(f, full_path, sched)

---------------------------------------------------------------------------
(* counter.rs: the system calls of a scan, in the order they are made *)

\* one call: what was called, whether it succeeded, the bytes it delivered
Event(op, ok, n) == [op |-> op, ok |-> ok, n |-> n]

\* mutant: the map is kept after the scan (held in a cache, or leaked)
count_lines_mmap_io_kept(f) ==
    LET m == Mmap_map(f)
    IN  IF ~m.ok THEN <<Event("map", FALSE, 0)>>
        ELSE <<Event("map", TRUE, Size(m.val)), Event("scan", TRUE, Size(m.val))>>

\* count_lines_mmap: the map is made, scanned, and dropped on return
count_lines_mmap_io(f) ==
    LET m == Mmap_map(f)
    IN  IF ~m.ok THEN <<Event("map", FALSE, 0)>>
        ELSE <<Event("map", TRUE, Size(m.val)),
               Event("scan", TRUE, Size(m.val)),
               Event("unmap", TRUE, 0)>>

\* count_lines_buffered: one read per iteration, to the first that fails
\* or returns no bytes
RECURSIVE count_lines_buffered_io(_, _, _)
count_lines_buffered_io(f, pos, sched) ==
    LET kind == IF sched = <<>> THEN "full" ELSE Head(sched)
        rest == IF sched = <<>> THEN <<>> ELSE Tail(sched)
        r    == File_read(f, pos, BUFFER_SIZE, kind)
    IN  IF ~r.ok THEN <<Event("read", FALSE, 0)>>
        ELSE IF r.val = 0 THEN <<Event("read", TRUE, 0)>>
        ELSE <<Event("read", TRUE, r.val)>>
             \o count_lines_buffered_io(f, pos + r.val, rest)

\* count_lines: open, metadata, then the strategy's calls
count_lines_io(files, base, file, sched) ==
    LET full_path == Join(base, file)
        o == File_open(files, full_path)
    IN  IF ~o.ok THEN <<Event("open", FALSE, 0)>>
        ELSE LET f == o.val
                 m == File_metadata(f)
             IN  <<Event("open", TRUE, 0)>> \o
                 (IF ~m.ok THEN <<Event("metadata", FALSE, 0)>>
                  ELSE <<Event("metadata", TRUE, 0)>> \o
                       (IF use_mmap(m.val)
                        THEN count_lines_mmap_io(f)
                        ELSE count_lines_buffered_io(f, 0, sched)))

\* the scan of this path holds a map of the file while it runs
makes_mapping(files, base, path) ==
    LET trace == count_lines_io(files, base, path, <<>>)
    IN  \E k \in DOMAIN trace : trace[k].op = "map" /\ trace[k].ok

\* the scan of this path has made a map it has not dropped at its return
leaves_mapping(files, base, path) ==
    LET trace == count_lines_io(files, base, path, <<>>)
    IN  /\ \E k \in DOMAIN trace : trace[k].op = "map" /\ trace[k].ok
        /\ \A k \in DOMAIN trace : trace[k].op # "unmap"

---------------------------------------------------------------------------
(* counter.rs: the result model *)

\* mutant: the path is stored as the operating system resolves it
FileCount_new_resolved(path, lines) == [path |-> Resolve(path), lines |-> lines]

\* FileCount::new
FileCount_new(path, lines) == [path |-> path, lines |-> lines]

RECURSIVE SumLines(_)
SumLines(files) ==
    IF files = <<>> THEN 0 ELSE Head(files).lines + SumLines(Tail(files))

\* mutant: the total is taken before the last count is added
from_counts_short(files) ==
    [files |-> files,
     total_lines |-> IF files = <<>> THEN 0
                     ELSE SumLines(SubSeq(files, 1, Len(files) - 1)),
     file_count |-> Len(files)]

\* CountSummary::from_counts
from_counts(files) ==
    [files |-> files, total_lines |-> SumLines(files), file_count |-> Len(files)]

---------------------------------------------------------------------------
(* The files a behaviour may start from *)

RECURSIVE RunsOf(_)
RunsOf(bytes) ==
    IF bytes = <<>> THEN <<>>
    ELSE <<[b |-> Head(bytes), n |-> 1]>> \o RunsOf(Tail(bytes))

Tails == UNION {[1..k -> Bytes] : k \in 0..MaxTail}

\* a run that brings a file to just below a threshold, or none
Pads == {<<>>} \cup
        {<<[b |-> b, n |-> n]>> :
            b \in Bytes, n \in {PARALLEL_THRESHOLD - 1, MMAP_THRESHOLD - 1}}

Contents == {pad \o RunsOf(t) : pad \in Pads, t \in Tails}

ErrOffsets(c) == {0, 1, Size(c)} \cap (0..Size(c))

ScanFiles ==
    {FileOf(m, c, 0) :
        m \in {"ok", "noperm", "fstaterr", "mmaperr"}, c \in Contents}
    \cup {FileOf("missing", <<>>, 0)}
    \cup UNION {{FileOf("readerr", c, e) : e \in ErrOffsets(c)} : c \in Contents}

Missing == FileOf("missing", <<>>, 0)

---------------------------------------------------------------------------
(* counter.rs: the batch functions *)

\* mutant: the large group is submitted in the order of the input
sort_by_size_desc_unsorted(infos) == infos

\* mutant: an unstable sort, entries of one size end in reverse order
RECURSIVE InsertBySize_unstable(_, _)
InsertBySize_unstable(sorted, info) ==
    IF sorted = <<>> THEN <<info>>
    ELSE IF Head(sorted).size > info.size
         THEN <<Head(sorted)>> \o InsertBySize_unstable(Tail(sorted), info)
         ELSE <<info>> \o sorted

\* a stable sort of FileInfo by size, descending: slice::sort_by with
\* |a, b| b.size.cmp(&a.size)
RECURSIVE InsertBySize(_, _)
InsertBySize(sorted, info) ==
    IF sorted = <<>> THEN <<info>>
    ELSE IF Head(sorted).size >= info.size
         THEN <<Head(sorted)>> \o InsertBySize(Tail(sorted), info)
         ELSE <<info>> \o sorted

RECURSIVE sort_by_size_desc(_)
sort_by_size_desc(infos) ==
    IF infos = <<>> THEN <<>>
    ELSE InsertBySize(sort_by_size_desc(SubSeq(infos, 1, Len(infos) - 1)),
                      infos[Len(infos)])

\* mutant: a path whose metadata cannot be read is kept, with size 0
RECURSIVE collect_file_infos_keep_unreadable(_, _, _)
collect_file_infos_keep_unreadable(files, base, paths) ==
    IF paths = <<>> THEN <<>>
    ELSE LET path == Head(paths)
             meta == fs_metadata(files, Join(base, path))
             rest == collect_file_infos_keep_unreadable(files, base, Tail(paths))
         IN  <<[path |-> path, size |-> IF meta.ok THEN meta.val ELSE 0]>>
             \o rest

\* counter.rs:226-237: the FileInfo of every path whose metadata can be read
RECURSIVE collect_file_infos(_, _, _)
collect_file_infos(files, base, paths) ==
    IF paths = <<>> THEN <<>>
    ELSE LET path == Head(paths)
             meta == fs_metadata(files, Join(base, path))
             rest == collect_file_infos(files, base, Tail(paths))
         IN  IF meta.ok
             THEN <<[path |-> path, size |-> meta.val]>> \o rest
             ELSE rest

\* mutant: the small group takes every file that fits the read buffer
IsSmall_fits_buffer(info) == info.size < BUFFER_SIZE

\* counter.rs:242: the partition predicate and its complement
IsSmall(info) == info.size < PARALLEL_THRESHOLD

\* mutant: a file of exactly the threshold size is in neither group
IsLarge_above(info) == info.size > PARALLEL_THRESHOLD

IsLarge(info) == ~IsSmall(info)

\* Option<T> of a structured value: no element, or one
NoneOpt == <<>>
Some(v) == <<v>>

\* mutant: a file that cannot be read is reported with no lines
scan_entry_zero(files, base, path, sched) ==
    LET r == count_lines(files, base, path, sched)
    IN  IF r.tag = "Ok" THEN Some(FileCount_new(path, r.val))
        ELSE Some(FileCount_new(path, 0))

\* the closure of both filter_maps: Some(FileCount) or None
scan_entry(files, base, path, sched) ==
    LET r == count_lines(files, base, path, sched)
    IN  IF r.tag = "Ok" THEN Some(FileCount_new(path, r.val)) ELSE NoneOpt

\* mutant: the results are appended as the scans complete
RECURSIVE InOrderOf(_, _)
InOrderOf(outs, order) ==
    IF order = <<>> THEN <<>>
    ELSE outs[Head(order)] \o InOrderOf(outs, Tail(order))

collect_large_as_completed(outs) == InOrderOf(outs, completed)

\* mutant: the collection ends at the first scan that failed
RECURSIVE collect_large_until_failure(_)
collect_large_until_failure(outs) ==
    IF outs = <<>> \/ Head(outs) = NoneOpt THEN <<>>
    ELSE Head(outs) \o collect_large_until_failure(Tail(outs))

\* par_iter().filter_map(..).collect::<Vec<_>>(): what the closures
\* returned, in the order of the entries they were run on
RECURSIVE collect_large(_)
collect_large(outs) ==
    IF outs = <<>> THEN <<>>
    ELSE Head(outs) \o collect_large(Tail(outs))

\* all_counts.extend(large_counts)
extend(all_counts, large_counts) == all_counts \o large_counts

---------------------------------------------------------------------------
(* The files a behaviour of the batch functions may start from *)

Empty    == <<>>
TwoLines == RunsOf(<<"x", NL, CR>>)
\* exactly PARALLEL_THRESHOLD bytes: large group, buffered strategy
AtSmall  == <<[b |-> NL, n |-> PARALLEL_THRESHOLD - 1], [b |-> "x", n |-> 1]>>
\* MMAP_THRESHOLD + 1 bytes: large group, memory-mapped strategy
OverMmap == <<[b |-> "x", n |-> MMAP_THRESHOLD - 1], [b |-> NL, n |-> 2]>>
BatchFiles ==
    {Missing,
     FileOf("ok", Empty, 0), FileOf("ok", TwoLines, 0),
     FileOf("noperm", TwoLines, 0),
     FileOf("ok", AtSmall, 0), FileOf("readerr", AtSmall, 1),
     FileOf("ok", OverMmap, 0), FileOf("mmaperr", OverMmap, 0)}

\* the read schedules of a scan made by a batch function: its first reads
\* may return half of what is available
BatchSchedules ==
    UNION {[1..k -> {"half"}] : k \in 0..MaxBatchShortReads}

Inputs == UNION {[1..k -> RelPaths] : k \in 0..MaxFiles}

---------------------------------------------------------------------------
(* Strings.  A string is named by a TLA+ string; its characters, which   *)
(* the filter looks at, are given by chars.                              *)

\* the characters of every string the filter meets
Spelling ==
    ("mp3" :> <<"m", "p", "3">>)
    @@ ("png" :> <<"p", "n", "g">>)
    @@ ("jpg" :> <<"j", "p", "g">>)
    @@ ("jpeg" :> <<"j", "p", "e", "g">>)
    @@ ("gif" :> <<"g", "i", "f">>)
    @@ ("svg" :> <<"s", "v", "g">>)
    @@ ("woff2" :> <<"w", "o", "f", "f", "2">>)
    @@ ("ico" :> <<"i", "c", "o">>)
    @@ ("webp" :> <<"w", "e", "b", "p">>)
    @@ ("bmp" :> <<"b", "m", "p">>)
    @@ ("tiff" :> <<"t", "i", "f", "f">>)
    @@ ("wav" :> <<"w", "a", "v">>)
    @@ ("mp4" :> <<"m", "p", "4">>)
    @@ ("avi" :> <<"a", "v", "i">>)
    @@ ("mov" :> <<"m", "o", "v">>)
    @@ ("webm" :> <<"w", "e", "b", "m">>)
    @@ ("flac" :> <<"f", "l", "a", "c">>)
    @@ ("ogg" :> <<"o", "g", "g">>)
    @@ ("ttf" :> <<"t", "t", "f">>)
    @@ ("woff" :> <<"w", "o", "f", "f">>)
    @@ ("eot" :> <<"e", "o", "t">>)
    @@ ("otf" :> <<"o", "t", "f">>)
    @@ ("pdf" :> <<"p", "d", "f">>)
    @@ ("mmdb" :> <<"m", "m", "d", "b">>)
    @@ ("csv" :> <<"c", "s", "v">>)
    @@ ("json" :> <<"j", "s", "o", "n">>)
    @@ ("toml" :> <<"t", "o", "m", "l">>)
    @@ ("lock" :> <<"l", "o", "c", "k">>)
    @@ ("ini" :> <<"i", "n", "i">>)
    @@ ("yaml" :> <<"y", "a", "m", "l">>)
    @@ ("yml" :> <<"y", "m", "l">>)
    @@ ("xml" :> <<"x", "m", "l">>)
    @@ ("md" :> <<"m", "d">>)
    @@ ("LICENSE" :> <<"L", "I", "C", "E", "N", "S", "E">>)
    @@ ("LICENSE-MIT" :> <<"L", "I", "C", "E", "N", "S", "E", "-", "M", "I", "T">>)
    @@ ("LICENSE-APACHE" :> <<"L", "I", "C", "E", "N", "S", "E", "-", "A", "P", "A", "C", "H", "E">>)
    @@ (".gitignore" :> <<".", "g", "i", "t", "i", "g", "n", "o", "r", "e">>)
    @@ ("src" :> <<"s", "r", "c">>)
    @@ ("docs" :> <<"d", "o", "c", "s">>)
    @@ (".." :> <<".", ".">>)
    @@ ("main.rs" :> <<"m", "a", "i", "n", ".", "r", "s">>)
    @@ ("license" :> <<"l", "i", "c", "e", "n", "s", "e">>)
    @@ ("logo.PNG" :> <<"l", "o", "g", "o", ".", "P", "N", "G">>)
    @@ ("a.tar.Json" :> <<"a", ".", "t", "a", "r", ".", "J", "s", "o", "n">>)
    @@ (".png" :> <<".", "p", "n", "g">>)
    @@ ("notes." :> <<"n", "o", "t", "e", "s", ".">>)
    @@ ("debug.Log" :> <<"d", "e", "b", "u", "g", ".", "L", "o", "g">>)
    @@ ("Makefile" :> <<"M", "a", "k", "e", "f", "i", "l", "e">>)
    @@ ("Makefile.bak" :> <<"M", "a", "k", "e", "f", "i", "l", "e", ".", "b", "a", "k">>)
    @@ ("README.md" :> <<"R", "E", "A", "D", "M", "E", ".", "m", "d">>)
    @@ ("log" :> <<"l", "o", "g">>)
    @@ ("LOG" :> <<"L", "O", "G">>)
    @@ ("" :> <<>>)
    @@ ("rs" :> <<"r", "s">>)

chars(s) == Spelling[s]

\* char::to_lowercase on the letters that occur
Lowercase ==
    ("A" :> "a") @@ ("B" :> "b") @@ ("C" :> "c") @@ ("D" :> "d")
    @@ ("E" :> "e") @@ ("F" :> "f") @@ ("G" :> "g") @@ ("H" :> "h")
    @@ ("I" :> "i") @@ ("J" :> "j") @@ ("K" :> "k") @@ ("L" :> "l")
    @@ ("M" :> "m") @@ ("N" :> "n") @@ ("O" :> "o") @@ ("P" :> "p")
    @@ ("Q" :> "q") @@ ("R" :> "r") @@ ("S" :> "s") @@ ("T" :> "t")
    @@ ("U" :> "u") @@ ("V" :> "v") @@ ("W" :> "w") @@ ("X" :> "x")
    @@ ("Y" :> "y") @@ ("Z" :> "z")

\* str::to_lowercase: every character that has a lowercase is replaced
to_lowercase(cs) ==
    [i \in DOMAIN cs |->
        IF cs[i] \in DOMAIN Lowercase THEN Lowercase[cs[i]] ELSE cs[i]]


---------------------------------------------------------------------------
(* filter.rs *)

\* filter.rs:9-12
MEDIA_EXTENSIONS == <<
    "mp3", "png", "jpg", "jpeg", "gif", "svg", "woff2", "ico", "webp",
    "bmp", "tiff", "wav", "mp4", "avi", "mov", "webm", "flac", "ogg",
    "ttf", "woff", "eot", "otf", "pdf">>

\* filter.rs:15-17
DATA_EXTENSIONS == <<
    "mmdb", "csv", "json", "toml", "lock", "ini", "yaml", "yml", "xml">>

\* filter.rs:20
DOC_EXTENSIONS == <<"md">>

\* filter.rs:23
EXCLUDED_FILENAMES == <<
    "LICENSE", "LICENSE-MIT", "LICENSE-APACHE", ".gitignore">>


\* FileFilter::new(): no extra exclusions
FileFilter_new ==
    [extra_excluded_extensions |-> <<>>, extra_excluded_filenames |-> <<>>]

\* FileFilter::exclude_extension
exclude_extension(self, extension) ==
    [self EXCEPT !.extra_excluded_extensions = Append(@, extension)]

\* FileFilter::exclude_filename
exclude_filename(self, filename) ==
    [self EXCEPT !.extra_excluded_filenames = Append(@, filename)]

\* Path::file_name: the last component if it is a normal one; "." components
\* are not components of the path
file_name(path) ==
    LET comps == SelectSeq(path, LAMBDA c : c # ".")
    IN  IF comps = <<>> THEN NoneOpt
        ELSE IF comps[Len(comps)] \in {"..", "/"} THEN NoneOpt
        ELSE Some(comps[Len(comps)])

\* Path::extension: what follows the last '.' of the file name, if there is
\* a '.' and something before it
extension(path) ==
    LET name == file_name(path)
    IN  IF name = NoneOpt THEN NoneOpt
        ELSE LET cs   == chars(name[1])
                 dots == {i \in DOMAIN cs : cs[i] = "."}
             IN  IF dots = {} THEN NoneOpt
                 ELSE LET d == CHOOSE i \in dots : \A j \in dots : j <= i
                      IN  IF d = 1 THEN NoneOpt
                          ELSE Some(SubSeq(cs, d + 1, Len(cs)))

\* mutant: the extra extensions are compared as they were given
should_count_extras_exact(self, path) ==
    LET name == file_name(path)
        ext  == extension(path)
    IN  IF /\ name # NoneOpt
           /\ \/ \E i \in DOMAIN EXCLUDED_FILENAMES :
                    EXCLUDED_FILENAMES[i] = name[1]
              \/ \E i \in DOMAIN self.extra_excluded_filenames :
                    self.extra_excluded_filenames[i] = name[1]
        THEN FALSE
        ELSE IF ext = NoneOpt THEN TRUE
        ELSE LET ext_lower == to_lowercase(ext[1])
             IN  IF \/ \E i \in DOMAIN MEDIA_EXTENSIONS :
                          chars(MEDIA_EXTENSIONS[i]) = ext_lower
                    \/ \E i \in DOMAIN DATA_EXTENSIONS :
                          chars(DATA_EXTENSIONS[i]) = ext_lower
                    \/ \E i \in DOMAIN DOC_EXTENSIONS :
                          chars(DOC_EXTENSIONS[i]) = ext_lower
                 THEN FALSE
                 ELSE ~\E i \in DOMAIN self.extra_excluded_extensions :
                          chars(self.extra_excluded_extensions[i]) = ext_lower

\* FileFilter::should_count
should_count(self, path) ==
    LET name == file_name(path)
        ext  == extension(path)
    IN  IF /\ name # NoneOpt
           /\ \/ \E i \in DOMAIN EXCLUDED_FILENAMES :
                    EXCLUDED_FILENAMES[i] = name[1]
              \/ \E i \in DOMAIN self.extra_excluded_filenames :
                    self.extra_excluded_filenames[i] = name[1]
        THEN FALSE
        ELSE IF ext = NoneOpt THEN TRUE
        ELSE LET ext_lower == to_lowercase(ext[1])
             IN  IF \/ \E i \in DOMAIN MEDIA_EXTENSIONS :
                          chars(MEDIA_EXTENSIONS[i]) = ext_lower
                    \/ \E i \in DOMAIN DATA_EXTENSIONS :
                          chars(DATA_EXTENSIONS[i]) = ext_lower
                    \/ \E i \in DOMAIN DOC_EXTENSIONS :
                          chars(DOC_EXTENSIONS[i]) = ext_lower
                 THEN FALSE
                 ELSE ~\E i \in DOMAIN self.extra_excluded_extensions :
                          to_lowercase(chars(self.extra_excluded_extensions[i]))
                              = ext_lower

\* mutant: a path that was already kept is not kept again
RECURSIVE filter_files_once(_, _)
filter_files_once(self, files) ==
    IF files = <<>> THEN <<>>
    ELSE LET init == SubSeq(files, 1, Len(files) - 1)
             f    == files[Len(files)]
             kept == filter_files_once(self, init)
         IN  IF should_count(self, f) /\ \A i \in DOMAIN kept : kept[i] # f
             THEN Append(kept, f)
             ELSE kept

\* FileFilter::filter_files: filter, map, collect
RECURSIVE filter_files(_, _)
filter_files(self, files) ==
    IF files = <<>> THEN <<>>
    ELSE (IF should_count(self, Head(files)) THEN <<Head(files)>> ELSE <<>>)
         \o filter_files(self, Tail(files))

---------------------------------------------------------------------------
(* git.rs *)

\* GitlsError::git
git(message) ==
    [kind |-> "Git", message |-> message, path |-> NoPath, source |-> None]

\* GitlsError::utf8: the context is kept as the message
utf8(context, source) ==
    [kind |-> "Utf8", message |-> context, path |-> NoPath, source |-> source]

\* GitlsError::NotAGitRepository
NotAGitRepository ==
    [kind |-> "NotAGitRepository", message |-> None, path |-> NoPath,
     source |-> None]

\* What running `git ls-files` in the directory gives: whether the process
\* could be run, its exit status, what its stderr says, whether its stdout
\* is UTF-8, and the lines of its stdout (a path each, or empty).
GitOutput(spawned, success, stderr, valid_utf8, lines) ==
    [spawned |-> spawned, success |-> success, stderr |-> stderr,
     valid_utf8 |-> valid_utf8, lines |-> lines]

NoOutput == GitOutput(FALSE, FALSE, None, FALSE, <<>>)

\* git::list_files
list_files(output) ==
    IF ~output.spawned
    THEN Err(git_with_source("Failed to execute git ls-files", "ENOENT"))
    ELSE IF ~output.success
    THEN IF output.stderr = "not a git repository"
         THEN Err(NotAGitRepository)
         ELSE Err(git("git ls-files failed"))
    ELSE IF ~output.valid_utf8
    THEN Err(utf8("git ls-files output", "FromUtf8Error"))
    ELSE Ok(SelectSeq(output.lines, LAMBDA line : line # <<>>))

\* no filter has been configured or used, and no repository counted
LibIdle ==
    /\ filter = FileFilter_new
    /\ listed = <<>>
    /\ filtered = NoneOpt
    /\ refiltered = NoneOpt
    /\ verdict = NoneOpt
    /\ git_output = NoOutput
    /\ repo_pc = "idle"
    /\ repo_ret = NoneOpt

---------------------------------------------------------------------------
(* Specification of the batch entry points.  The caller makes blocking     *)
(* calls: count_lines_parallel and count_lines_sequential, each once, in   *)
(* either order, on the same base directory and path list.                 *)

Init ==
    /\ fs \in [DiskPaths -> BatchFiles]
    /\ input \in Inputs
    /\ arg = NoneOpt
    /\ ret = NoneOpt
    /\ calls = <<>>
    /\ pc = "idle"
    /\ small_files = <<>>
    /\ large_files = <<>>
    /\ small_next = 1
    /\ small_counts = <<>>
    /\ large_state = <<>>
    /\ large_out = <<>>
    /\ completed = <<>>
    /\ par_summary = NoneOpt
    /\ small_log = <<>>
    /\ mappings = {}
    /\ seq_next = 1
    /\ seq_counts = <<>>
    /\ seq_log = <<>>
    /\ seq_summary = NoneOpt
    /\ LibIdle

\* the scanner is entered or left for an entry of the small group
ScanEvent(ev, entry, path) == [ev |-> ev, entry |-> entry, path |-> path]

\* count_lines_parallel, counter.rs:222-245: metadata, partition, sort
ParallelStart ==
    /\ pc = "idle"
    /\ par_summary = NoneOpt
    /\ small_log = <<>>
    /\ mappings = {}
    /\ LET file_infos == collect_file_infos(fs, Base, input)
           large      == sort_by_size_desc(SelectSeq(file_infos, IsLarge))
       IN  /\ small_files' = SelectSeq(file_infos, IsSmall)
           /\ large_files' = large
           /\ large_state' = [i \in 1..Len(large) |-> "todo"]
           /\ large_out' = [i \in 1..Len(large) |-> NoneOpt]
    /\ small_next' = 1
    /\ small_counts' = <<>>
    /\ completed' = <<>>
    /\ small_log' = <<>>
    /\ mappings' = {}
    /\ pc' = "par"
    /\ UNCHANGED <<lib_vars, fs, input, arg, ret, calls, par_summary, seq_vars>>

\* mutant: an entry whose scan failed is scanned again
SmallScan_retry(sched) ==
    /\ pc = "par"
    /\ small_next <= Len(small_files)
    /\ LET info == small_files[small_next]
           out  == scan_entry(fs, Base, info.path, sched)
       IN  /\ small_counts' = small_counts \o out
           /\ small_log' = small_log \o
                  <<ScanEvent("start", small_next, info.path),
                    ScanEvent("finish", small_next, info.path)>>
           /\ small_next' = IF out = <<>> THEN small_next ELSE small_next + 1
    /\ UNCHANGED <<lib_vars, fs, input, arg, ret, calls, pc, small_files, large_files,
                   large_state, large_out, completed, par_summary,
                   mappings, seq_vars>>

\* counter.rs:248-256: the next small entry, on the calling thread
SmallScan(sched) ==
    /\ pc = "par"
    /\ small_next <= Len(small_files)
    /\ LET info == small_files[small_next]
           out  == scan_entry(fs, Base, info.path, sched)
       IN  /\ small_counts' = small_counts \o out
           /\ small_log' = small_log \o
                  <<ScanEvent("start", small_next, info.path),
                    ScanEvent("finish", small_next, info.path)>>
    /\ small_next' = small_next + 1
    /\ UNCHANGED <<lib_vars, fs, input, arg, ret, calls, pc, small_files, large_files,
                   large_state, large_out, completed, par_summary,
                   mappings, seq_vars>>

Running == {i \in DOMAIN large_state : large_state[i] = "running"}

\* counter.rs:259-266: a worker takes up the scan of large entry i
LargeStart(i) ==
    /\ pc = "par"
    /\ small_next > Len(small_files)
    /\ i \in DOMAIN large_state
    /\ large_state[i] = "todo"
    /\ Cardinality(Running) < NumWorkers
    /\ large_state' = [large_state EXCEPT ![i] = "running"]
    /\ mappings' =
          IF makes_mapping(fs, Base, large_files[i].path)
          THEN mappings \cup
                  {[owner |-> i,
                    file |-> Resolve(Join(Base, large_files[i].path))]}
          ELSE mappings
    /\ UNCHANGED <<lib_vars, fs, input, arg, ret, calls, pc, small_files, large_files,
                   small_next, small_counts, large_out, completed,
                   par_summary, small_log, seq_vars>>

\* mutant: a failing large scan aborts the batch
LargeFinish_abort(i, sched) ==
    /\ pc = "par"
    /\ i \in DOMAIN large_state
    /\ large_state[i] = "running"
    /\ LET out == scan_entry(fs, Base, large_files[i].path, sched)
       IN  /\ large_out' = [large_out EXCEPT ![i] = out]
           /\ pc' = IF out = NoneOpt THEN "idle" ELSE pc
    /\ large_state' = [large_state EXCEPT ![i] = "done"]
    /\ completed' = Append(completed, i)
    /\ mappings' =
          IF leaves_mapping(fs, Base, large_files[i].path)
          THEN mappings
          ELSE {m \in mappings : m.owner # i}
    /\ UNCHANGED <<lib_vars, fs, input, arg, ret, calls, small_files, large_files,
                   small_next, small_counts, par_summary, small_log,
                   seq_vars>>

\* counter.rs:261-266: the scan of large entry i completes
LargeFinish(i, sched) ==
    /\ pc = "par"
    /\ i \in DOMAIN large_state
    /\ large_state[i] = "running"
    /\ large_out' = [large_out EXCEPT
                        ![i] = scan_entry(fs, Base, large_files[i].path, sched)]
    /\ large_state' = [large_state EXCEPT ![i] = "done"]
    /\ completed' = Append(completed, i)
    /\ mappings' =
          IF leaves_mapping(fs, Base, large_files[i].path)
          THEN mappings
          ELSE {m \in mappings : m.owner # i}
    /\ UNCHANGED <<lib_vars, fs, input, arg, ret, calls, pc, small_files, large_files,
                   small_next, small_counts, par_summary, small_log,
                   seq_vars>>

\* mutant: the summary is built while large scans are still running
ParallelReturn_early ==
    /\ pc = "par"
    /\ small_next > Len(small_files)
    /\ par_summary' =
          Some(from_counts(extend(small_counts, collect_large(large_out))))
    /\ pc' = "idle"
    /\ UNCHANGED <<lib_vars, fs, input, arg, ret, calls, small_files, large_files,
                   small_next, small_counts, large_state, large_out,
                   completed, small_log, mappings, seq_vars>>

\* counter.rs:267-273: collect, extend, from_counts, return
ParallelReturn ==
    /\ pc = "par"
    /\ small_next > Len(small_files)
    /\ \A i \in DOMAIN large_state : large_state[i] = "done"
    /\ par_summary' =
          Some(from_counts(extend(small_counts, collect_large(large_out))))
    /\ pc' = "idle"
    /\ UNCHANGED <<lib_vars, fs, input, arg, ret, calls, small_files, large_files,
                   small_next, small_counts, large_state, large_out,
                   completed, small_log, mappings, seq_vars>>

\* count_lines_sequential, counter.rs:293-294: the paths as a Vec<String>
SequentialStart ==
    /\ pc = "idle"
    /\ seq_summary = NoneOpt
    /\ pc' = "seq"
    /\ seq_next' = 1
    /\ seq_counts' = <<>>
    /\ seq_log' = <<>>
    /\ UNCHANGED <<lib_vars, fs, input, arg, ret, calls, par_vars, seq_summary>>

\* counter.rs:296-301: the closure of filter_map on the next path
SequentialScan(sched) ==
    /\ pc = "seq"
    /\ seq_next <= Len(input)
    /\ LET file_path == input[seq_next]
       IN  /\ seq_counts' = seq_counts \o scan_entry(fs, Base, file_path, sched)
           /\ seq_log' = Append(seq_log, file_path)
    /\ seq_next' = seq_next + 1
    /\ UNCHANGED <<lib_vars, fs, input, arg, ret, calls, pc, par_vars, seq_summary>>

\* counter.rs:302-304: collect, from_counts, return
SequentialReturn ==
    /\ pc = "seq"
    /\ seq_next > Len(input)
    /\ seq_summary' = Some(from_counts(seq_counts))
    /\ pc' = "idle"
    /\ UNCHANGED <<lib_vars, fs, input, arg, ret, calls, par_vars, seq_next, seq_counts, seq_log>>

Next ==
    \/ ParallelStart
    \/ \E sched \in BatchSchedules : SmallScan(sched)
    \/ \E i \in 1..MaxFiles : LargeStart(i)
    \/ \E i \in 1..MaxFiles, sched \in BatchSchedules : LargeFinish(i, sched)
    \/ ParallelReturn
    \/ SequentialStart
    \/ \E sched \in BatchSchedules : SequentialScan(sched)
    \/ SequentialReturn

Spec == Init /\ [][Next]_vars

---------------------------------------------------------------------------
(* Specification of one call of count_lines_parallel under a fair          *)
(* scheduler: the calling thread goes on with its loop and its return, the *)
(* pool takes up a pending scan whenever a worker is free, and every scan  *)
(* that runs ends.  Nothing is assumed about when the call is made.        *)

NextParallel ==
    \/ ParallelStart
    \/ \E sched \in BatchSchedules : SmallScan(sched)
    \/ \E i \in 1..MaxFiles : LargeStart(i)
    \/ \E i \in 1..MaxFiles, sched \in BatchSchedules : LargeFinish(i, sched)
    \/ ParallelReturn

\* The steps of the loop and of the pool, named by what they do to the
\* position of the loop and to the state of the entries: within a call these
\* are the steps of SmallScan, LargeStart and LargeFinish(i), and each is
\* possible exactly when that action is.
SmallScanStep ==
    /\ pc = "par"
    /\ small_next <= Len(small_files)
    /\ small_next' = small_next + 1

LargeStartStep ==
    /\ pc = "par"
    /\ small_next > Len(small_files)
    /\ Cardinality(Running) < NumWorkers
    /\ \E i \in DOMAIN large_state :
          /\ large_state[i] = "todo"
          /\ large_state' = [large_state EXCEPT ![i] = "running"]

LargeFinishStep(i) ==
    /\ pc = "par"
    /\ i \in Running
    /\ large_state' = [large_state EXCEPT ![i] = "done"]

SpecParallelFair ==
    /\ Init
    /\ [][NextParallel]_vars
    /\ WF_small_next(SmallScanStep)
    /\ WF_large_state(LargeStartStep)
    /\ \A i \in 1..MaxFiles : WF_large_state(LargeFinishStep(i))
    /\ WF_vars(ParallelReturn)

---------------------------------------------------------------------------
(* Specification of the single-file entry point: one file on disk, any     *)
(* content and failure, and one call of count_lines on it.                 *)

BatchIdle ==
    /\ input = <<>>
    /\ pc = "idle"
    /\ small_files = <<>>
    /\ large_files = <<>>
    /\ small_next = 1
    /\ small_counts = <<>>
    /\ large_state = <<>>
    /\ large_out = <<>>
    /\ completed = <<>>
    /\ par_summary = NoneOpt
    /\ small_log = <<>>
    /\ mappings = {}
    /\ seq_next = 1
    /\ seq_counts = <<>>
    /\ seq_log = <<>>
    /\ seq_summary = NoneOpt

InitScan ==
    /\ \E f \in ScanFiles :
          fs = [p \in DiskPaths |->
                   IF p = Resolve(Join(Base, <<"a">>)) THEN f ELSE Missing]
    /\ arg = NoneOpt
    /\ ret = NoneOpt
    /\ calls = <<>>
    /\ BatchIdle
    /\ LibIdle

\* a call count_lines(Base, file) whose reads follow sched
CountLinesCall(file, sched) ==
    /\ ret = NoneOpt
    /\ arg' = Some([file |-> file, sched |-> sched])
    /\ ret' = Some(count_lines(fs, Base, file, sched))
    /\ calls' = count_lines_io(fs, Base, file, sched)
    /\ UNCHANGED <<lib_vars, fs, batch_vars>>

NextScan ==
    \E file \in RelPaths, sched \in Schedules : CountLinesCall(file, sched)

SpecScan == InitScan /\ [][NextScan]_vars

---------------------------------------------------------------------------
(* Specification of the filter: a FileFilter is built with the builder     *)
(* methods and then used, by should_count on a path, and by filter_files   *)
(* on a list of paths and on what it returned for that list.               *)

\* paths should_count is asked about
FilterPaths ==
    {<<"src", "main.rs">>, <<"LICENSE">>, <<"docs", "LICENSE">>,
     <<"license">>, <<"logo.PNG">>, <<"a.tar.Json">>, <<".gitignore">>,
     <<".png">>, <<"notes.">>, <<"debug.Log">>, <<"Makefile">>,
     <<"src", "..">>, <<"src", "Makefile.bak">>, <<"src", ".">>}

\* paths of the lists given to filter_files
ListedPaths == {<<"src", "main.rs">>, <<"logo.PNG">>, <<"debug.Log">>,
                <<"LICENSE">>}

\* what the builder methods are called with
ExtraExtensions == {"LOG", "rs"}
ExtraFilenames == {"Makefile", "Makefile.bak"}

FilterLists == UNION {[1..k -> ListedPaths] : k \in 0..MaxFiles}

InitFilter ==
    /\ filter = FileFilter_new
    /\ listed \in FilterLists
    /\ filtered = NoneOpt
    /\ refiltered = NoneOpt
    /\ verdict = NoneOpt
    /\ git_output = NoOutput
    /\ repo_pc = "idle"
    /\ repo_ret = NoneOpt
    /\ fs = [p \in DiskPaths |-> Missing]
    /\ arg = NoneOpt
    /\ ret = NoneOpt
    /\ calls = <<>>
    /\ BatchIdle

FilterUnused == filtered = NoneOpt /\ verdict = NoneOpt

\* filter.exclude_extension(extension)
ExcludeExtension(ext) ==
    /\ FilterUnused
    /\ Len(filter.extra_excluded_extensions) < MaxExtras
    /\ filter' = exclude_extension(filter, ext)
    /\ UNCHANGED <<filter_vars, repo_vars, fs, arg, ret, calls, batch_vars>>

\* filter.exclude_filename(filename)
ExcludeFilename(name) ==
    /\ FilterUnused
    /\ Len(filter.extra_excluded_filenames) < MaxExtras
    /\ filter' = exclude_filename(filter, name)
    /\ UNCHANGED <<filter_vars, repo_vars, fs, arg, ret, calls, batch_vars>>

\* filter.should_count(path)
ShouldCount(path) ==
    /\ verdict = NoneOpt
    /\ verdict' = Some([path |-> path, counted |-> should_count(filter, path)])
    /\ UNCHANGED <<filter, listed, filtered, refiltered, repo_vars, fs, arg,
                   ret, calls, batch_vars>>

\* filter.filter_files(listed)
FilterFiles ==
    /\ filtered = NoneOpt
    /\ filtered' = Some(filter_files(filter, listed))
    /\ UNCHANGED <<filter, listed, refiltered, verdict, repo_vars, fs, arg,
                   ret, calls, batch_vars>>

\* filter.filter_files(filtered), on the list it returned
FilterAgain ==
    /\ filtered # NoneOpt
    /\ refiltered = NoneOpt
    /\ refiltered' = Some(filter_files(filter, filtered[1]))
    /\ UNCHANGED <<filter, listed, filtered, verdict, repo_vars, fs, arg,
                   ret, calls, batch_vars>>

NextFilter ==
    \/ \E ext \in ExtraExtensions : ExcludeExtension(ext)
    \/ \E name \in ExtraFilenames : ExcludeFilename(name)
    \/ \E path \in FilterPaths : ShouldCount(path)
    \/ FilterFiles
    \/ FilterAgain

SpecFilter == InitFilter /\ [][NextFilter]_vars

---------------------------------------------------------------------------
(* Specification of the library entry point: a directory with tracked      *)
(* files, or none, and one call of count_repository_with_filter on it.     *)

\* the paths `git ls-files` may list, and an empty line
RepoPaths == {<<"src", "main.rs">>, <<"logo.PNG">>, <<"LICENSE">>}
RepoLines == RepoPaths \cup {<<>>}

RepoDiskPaths == {Base \o p : p \in RepoPaths}

\* what is at a listed path: nothing (the file was deleted from the working
\* tree), a small file, a file of the small-file threshold size
RepoFiles == {Missing, FileOf("ok", TwoLines, 0), FileOf("ok", AtSmall, 0)}

\* the outcomes of `git ls-files`
GitOutputs ==
    {GitOutput(FALSE, FALSE, None, FALSE, <<>>),
     GitOutput(TRUE, FALSE, "not a git repository", TRUE, <<>>),
     GitOutput(TRUE, FALSE, "index file corrupt", TRUE, <<>>),
     GitOutput(TRUE, TRUE, None, FALSE, <<>>)}
    \cup {GitOutput(TRUE, TRUE, None, TRUE, lines) :
             lines \in UNION {[1..k -> RepoLines] : k \in 0..MaxFiles}}

\* FileFilter::new(), as count_repository passes, or a configured filter
RepoFilters == {FileFilter_new, exclude_extension(FileFilter_new, "rs")}

InitRepo ==
    /\ fs \in [RepoDiskPaths -> RepoFiles]
    /\ git_output \in GitOutputs
    /\ filter \in RepoFilters
    /\ repo_pc = "idle"
    /\ repo_ret = NoneOpt
    /\ listed = <<>>
    /\ filtered = NoneOpt
    /\ refiltered = NoneOpt
    /\ verdict = NoneOpt
    /\ arg = NoneOpt
    /\ ret = NoneOpt
    /\ calls = <<>>
    /\ BatchIdle

\* mutant: the listed files are counted without being filtered
RepoList_unfiltered ==
    /\ repo_pc = "idle"
    /\ repo_ret = NoneOpt
    /\ LET files == list_files(git_output)
       IN  IF files.tag = "Err"
           THEN /\ repo_ret' = Some(Err(files.err))
                /\ UNCHANGED <<repo_pc, input>>
           ELSE /\ input' = files.val
                /\ repo_pc' = "counting"
                /\ UNCHANGED repo_ret
    /\ UNCHANGED <<filter, filter_vars, git_output, fs, arg, ret, calls, pc,
                   par_vars, seq_vars>>

\* lib.rs:117-120: list_files(path)?, then filter_files
RepoList ==
    /\ repo_pc = "idle"
    /\ repo_ret = NoneOpt
    /\ LET files == list_files(git_output)
       IN  IF files.tag = "Err"
           THEN /\ repo_ret' = Some(Err(files.err))
                /\ UNCHANGED <<repo_pc, input>>
           ELSE /\ input' = filter_files(filter, files.val)
                /\ repo_pc' = "counting"
                /\ UNCHANGED repo_ret
    /\ UNCHANGED <<filter, filter_vars, git_output, fs, arg, ret, calls, pc,
                   par_vars, seq_vars>>

\* lib.rs:123: the call of count_lines_parallel(path, filtered_files)
RepoCount ==
    /\ repo_pc = "counting"
    /\ ParallelStart

\* lib.rs:125: Ok(summary)
RepoReturn ==
    /\ repo_pc = "counting"
    /\ pc = "idle"
    /\ par_summary # NoneOpt
    /\ repo_ret' = Some(Ok(par_summary[1]))
    /\ repo_pc' = "idle"
    /\ UNCHANGED <<filter, filter_vars, git_output, fs, arg, ret, calls,
                   batch_vars>>

NextRepo ==
    \/ RepoList
    \/ RepoCount
    \/ \E sched \in BatchSchedules : SmallScan(sched)
    \/ \E i \in 1..MaxFiles : LargeStart(i)
    \/ \E i \in 1..MaxFiles, sched \in BatchSchedules : LargeFinish(i, sched)
    \/ ParallelReturn
    \/ RepoReturn

SpecRepo == InitRepo /\ [][NextRepo]_vars

---------------------------------------------------------------------------
(* What the properties below are stated with.  None of it is used by the   *)
(* model: contents are measured run by run, by index, and the file system  *)
(* is read directly.                                                       *)

\* the bytes of the first k runs of S
RECURSIVE BytesUpTo(_, _)
BytesUpTo(S, k) == IF k = 0 THEN 0 ELSE BytesUpTo(S, k - 1) + S[k].n

\* the '\n' bytes of the first k runs of S
RECURSIVE NewlinesUpTo(_, _)
NewlinesUpTo(S, k) ==
    IF k = 0 THEN 0
    ELSE NewlinesUpTo(S, k - 1) + (IF S[k].b = NL THEN S[k].n ELSE 0)

NumNewlines(S) == NewlinesUpTo(S, Len(S))
NumBytes(S) == BytesUpTo(S, Len(S))
EndsWithNewline(S) == S # <<>> /\ S[Len(S)].b = NL

\* the line count section 4.1 of the specification defines
LinesOf(S) ==
    IF S = <<>> THEN 0
    ELSE NumNewlines(S) + (IF EndsWithNewline(S) THEN 0 ELSE 1)

\* the file a relative path names
WithoutDots(p) == SelectSeq(p, LAMBDA c : c # ".")
DiskFile(p) == fs[Base \o WithoutDots(p)]

\* the file can be opened, its size queried and its whole content scanned
\* by the strategy its size selects: a buffered read, or a mapping above
\* the large-file threshold
Scannable(f) ==
    \/ f.mode = "ok"
    \/ f.mode = "mmaperr" /\ NumBytes(f.content) <= MMAP_THRESHOLD

ScannablePath(p) == Scannable(DiskFile(p))

Occurrences(x, seq) == Cardinality({i \in DOMAIN seq : seq[i] = x})

PathsOf(files) == [i \in DOMAIN files |-> files[i].path]

Returned(summary) == summary # NoneOpt

\* the state after a call of count_lines
Called == ret # NoneOpt
CalledFile == DiskFile(arg[1].file)
Result == ret[1]

---------------------------------------------------------------------------
(* C1 *)

\* C1: whenever count_lines returns a count for a file of content S, the
\* count is 0 if S is empty and otherwise the number of '\n' bytes of S plus
\* 1 if the last byte of S is not '\n'; '\r' counts as any other byte.
C1_LineCount ==
    (Called /\ Result.tag = "Ok") => Result.val = LinesOf(CalledFile.content)

\* C1 witness: a count was returned for a content with "\r\n" in it that
\* does not end with '\n'
C1_Witness ==
    /\ Called
    /\ Result.tag = "Ok"
    /\ LET S == CalledFile.content
       IN  /\ Len(S) >= 3
           /\ \E i \in 1..(Len(S) - 1) : S[i].b = CR /\ S[i + 1].b = NL
           /\ ~EndsWithNewline(S)
           /\ Result.val >= 2

---------------------------------------------------------------------------
(* C2 *)

Readable(S) == FileOf("ok", S, 0)

\* C2: whenever count_lines returns a count, that count is the one the
\* memory-mapped strategy gives on the file's content and the one the
\* buffered strategy gives on it under every read schedule, whatever the
\* file's size (below, at or above the large-file threshold).
C2_StrategiesAgree ==
    (Called /\ Result.tag = "Ok") =>
        LET S == CalledFile.content
        IN  /\ count_lines_mmap(Readable(S)) = Ok(Result.val)
            /\ \A sched \in Schedules :
                  count_lines_buffered(Readable(S), <<>>, sched) = Ok(Result.val)

\* C2 witness: a count of a file one byte larger than the threshold, which
\* has a partial last line
C2_Witness ==
    /\ Called
    /\ Result.tag = "Ok"
    /\ NumBytes(CalledFile.content) = MMAP_THRESHOLD + 1
    /\ ~EndsWithNewline(CalledFile.content)
    /\ Result.val >= 2

---------------------------------------------------------------------------
(* C3 *)

RECURSIVE LinesUpTo(_, _)
LinesUpTo(files, k) ==
    IF k = 0 THEN 0 ELSE LinesUpTo(files, k - 1) + files[k].lines

SummaryConsistent(summary) ==
    /\ summary.total_lines = LinesUpTo(summary.files, Len(summary.files))
    /\ summary.file_count = Cardinality(DOMAIN summary.files)

\* C3: every summary count_lines_parallel or count_lines_sequential returns
\* (each built by CountSummary::from_counts) has total_lines equal to the
\* sum of the lines of its files and file_count equal to their number.
C3_SummaryInvariant ==
    /\ Returned(par_summary) => SummaryConsistent(par_summary[1])
    /\ Returned(seq_summary) => SummaryConsistent(seq_summary[1])

\* C3 witness: both functions returned a summary of two files with lines
C3_Witness ==
    /\ Returned(par_summary)
    /\ Returned(seq_summary)
    /\ par_summary[1].file_count = 2
    /\ par_summary[1].files[2].lines > 0
    /\ seq_summary[1].total_lines > 0

---------------------------------------------------------------------------
(* C4 *)

OneEntryPerScannableOccurrence(summary) ==
    /\ \A i \in DOMAIN summary.files : summary.files[i].path \in RelPaths
    /\ \A p \in RelPaths :
          Occurrences(p, PathsOf(summary.files)) =
              IF ScannablePath(p) THEN Occurrences(p, input) ELSE 0

\* C4: what a batch function returns is always a summary, never an error,
\* and it holds one FileCount for each occurrence in the input of a path
\* whose file can be opened and scanned to its end, and none for a path
\* whose metadata lookup, open or read (a mapping, for the large-file
\* strategy) fails.
C4_FailuresOmitted ==
    /\ Returned(par_summary) => OneEntryPerScannableOccurrence(par_summary[1])
    /\ Returned(seq_summary) => OneEntryPerScannableOccurrence(seq_summary[1])

\* C4 witness: both functions returned for an input that names a readable
\* file twice and a file that fails
C4_Witness ==
    /\ Returned(par_summary)
    /\ Returned(seq_summary)
    /\ Len(input) = 3
    /\ \E i, j, k \in 1..3 :
          /\ i # j
          /\ input[i] = input[j]
          /\ ScannablePath(input[i])
          /\ ~ScannablePath(input[k])
    /\ par_summary[1].file_count = 2

---------------------------------------------------------------------------
(* C5 *)

SameEntries(a, b) ==
    \A e \in {a[i] : i \in DOMAIN a} \cup {b[i] : i \in DOMAIN b} :
        Occurrences(e, a) = Occurrences(e, b)

\* C5: on the same base directory, path list and file system, the two batch
\* functions return the same multiset of (path, lines) entries, hence the
\* same total_lines and file_count.
C5_ParallelEqualsSequential ==
    (Returned(par_summary) /\ Returned(seq_summary)) =>
        /\ SameEntries(par_summary[1].files, seq_summary[1].files)
        /\ par_summary[1].total_lines = seq_summary[1].total_lines
        /\ par_summary[1].file_count = seq_summary[1].file_count

\* C5 witness: both returned, with the same entries in different orders
C5_Witness ==
    /\ Returned(par_summary)
    /\ Returned(seq_summary)
    /\ par_summary[1].file_count >= 2
    /\ par_summary[1].files # seq_summary[1].files
    /\ \E i \in DOMAIN input :
          NumBytes(DiskFile(input[i]).content) = PARALLEL_THRESHOLD

---------------------------------------------------------------------------
(* C6 *)

\* an open, a metadata query or a read of the called file fails
OpenMetadataOrReadFails(f) ==
    \/ f.mode \in {"missing", "noperm", "fstaterr"}
    \/ f.mode = "readerr" /\ NumBytes(f.content) <= MMAP_THRESHOLD

\* C6: when the file cannot be opened, its metadata cannot be queried or a
\* read fails, count_lines returns no count but an I/O error that carries
\* the base directory joined with the relative path.
C6_FailureSurfaced ==
    (Called /\ OpenMetadataOrReadFails(CalledFile)) =>
        /\ Result.tag = "Err"
        /\ Result.err.kind = "Io"
        /\ Result.err.path = Base \o arg[1].file

\* C6 witness: a read failed after a first chunk had been counted
C6_Witness ==
    /\ Called
    /\ CalledFile.mode = "readerr"
    /\ CalledFile.errAt >= 1
    /\ CalledFile.content[1].b = NL
    /\ Result.tag = "Err"
    /\ arg[1].file = <<".", "a">>

---------------------------------------------------------------------------
(* C7 *)

\* C7: when mapping a file above the large-file threshold fails, count_lines
\* returns an I/O error that carries the offending path and the cause.
C7_MmapFailureIsIoError ==
    (/\ Called
     /\ CalledFile.mode = "mmaperr"
     /\ NumBytes(CalledFile.content) > MMAP_THRESHOLD) =>
        /\ Result.tag = "Err"
        /\ Result.err.kind = "Io"
        /\ Result.err.path = Base \o arg[1].file
        /\ Result.err.source # None

---------------------------------------------------------------------------
(* C8 *)

SizeOfPath(p) == NumBytes(DiskFile(p).content)

\* the input's paths that end in the small group and are scanned
SmallSuccesses ==
    SelectSeq(input, LAMBDA p : ScannablePath(p) /\ SizeOfPath(p) < PARALLEL_THRESHOLD)

LargeSuccesses ==
    SelectSeq(input, LAMBDA p : ScannablePath(p) /\ SizeOfPath(p) >= PARALLEL_THRESHOLD)

\* seq with the entries of the largest size first, those of one size in
\* their order in seq
RECURSIVE BySizeDescending(_)
BySizeDescending(seq) ==
    IF seq = <<>> THEN <<>>
    ELSE LET top == CHOOSE s \in {SizeOfPath(seq[i]) : i \in DOMAIN seq} :
                        \A i \in DOMAIN seq : SizeOfPath(seq[i]) <= s
         IN  SelectSeq(seq, LAMBDA p : SizeOfPath(p) = top)
             \o BySizeDescending(SelectSeq(seq, LAMBDA p : SizeOfPath(p) # top))

\* the paths of the large entries whose scan succeeded, as the scans completed
RECURSIVE CompletedPaths(_)
CompletedPaths(order) ==
    IF order = <<>> THEN <<>>
    ELSE PathsOf(large_out[Head(order)]) \o CompletedPaths(Tail(order))

\* C8 (as claimed): the files returned by count_lines_parallel are the
\* small-group successes in input order followed by the large-group
\* successes in the order in which their scans completed.
C8_LargeInCompletionOrder ==
    Returned(par_summary) =>
        PathsOf(par_summary[1].files) = SmallSuccesses \o CompletedPaths(completed)

\* C8 (amended): the files returned by count_lines_parallel are the
\* small-group successes in input order followed by the large-group
\* successes in the order the large group was submitted in (size
\* descending, equal sizes in input order), whatever order the scans
\* completed in.
C8_LargeInSubmittedOrder ==
    Returned(par_summary) =>
        PathsOf(par_summary[1].files)
            = SmallSuccesses \o BySizeDescending(LargeSuccesses)

\* C8 witness: returned after the second large scan completed before the
\* first, both with a count, and after a small scan
C8_Witness ==
    /\ Returned(par_summary)
    /\ Len(completed) = 2
    /\ completed[1] = 2
    /\ large_out[1] # NoneOpt
    /\ large_out[2] # NoneOpt
    /\ large_out[1][1].path # large_out[2][1].path
    /\ Len(small_counts) = 1

---------------------------------------------------------------------------
(* C9 *)

\* C9: count_lines_sequential scans the paths one at a time in input order:
\* at every moment the scans done are those of the first paths of the
\* input, and what it returns holds, in input order, one entry per path
\* that could be scanned, with the path exactly as supplied and the file's
\* line count.
C9_SequentialInInputOrder ==
    /\ seq_log = SubSeq(input, 1, Len(seq_log))
    /\ Returned(seq_summary) =>
          LET expected == SelectSeq(input, ScannablePath)
              files == seq_summary[1].files
          IN  /\ seq_log = input
              /\ PathsOf(files) = expected
              /\ \A i \in DOMAIN files :
                    files[i].lines = LinesOf(DiskFile(expected[i]).content)

\* C9 witness: returned for three paths, the second of which failed and
\* the third of which is "./a"
C9_Witness ==
    /\ Returned(seq_summary)
    /\ Len(input) = 3
    /\ ~ScannablePath(input[2])
    /\ input[3] = <<".", "a">>
    /\ seq_summary[1].file_count = 2
    /\ seq_summary[1].files[2].path = <<".", "a">>
    /\ seq_summary[1].files[2].lines > 0

---------------------------------------------------------------------------
(* C10 *)

\* the entries of the summary that come from the large group
LargePart(summary) ==
    SubSeq(summary.files, Len(small_counts) + 1, Len(summary.files))

\* C10: when count_lines_parallel returns, every large-group entry has been
\* scanned exactly once, whatever the interleaving, and the large part of
\* the result holds exactly one FileCount, with the file's line count, for
\* each large entry whose file could be scanned, a failing scan removing
\* nothing else.
C10_LargeFanOut ==
    Returned(par_summary) =>
        /\ \A i \in DOMAIN large_files : Occurrences(i, completed) = 1
        /\ Len(completed) = Len(large_files)
        /\ LET got == LargePart(par_summary[1])
               expect(i) == [path |-> large_files[i].path,
                             lines |-> LinesOf(DiskFile(large_files[i].path).content)]
           IN  /\ \A i \in DOMAIN large_files :
                     Occurrences(expect(i), got) =
                        IF ScannablePath(large_files[i].path)
                        THEN Cardinality({j \in DOMAIN large_files :
                                             large_files[j].path = large_files[i].path})
                        ELSE 0
               /\ Len(got) = Cardinality({i \in DOMAIN large_files :
                                             ScannablePath(large_files[i].path)})

\* C10 witness: of several large scans the first submitted failed, and
\* the last submitted completed first, with a count
C10_Witness ==
    /\ Returned(par_summary)
    /\ Len(large_files) >= 2
    /\ completed[1] = Len(large_files)
    /\ large_out[1] = NoneOpt
    /\ large_out[Len(large_files)] # NoneOpt

---------------------------------------------------------------------------
(* C15 *)

\* count_lines_parallel has computed its two groups
Partitioned == pc = "par" \/ Returned(par_summary)

MetadataReadable(p) == DiskFile(p).mode # "missing"

\* the paths a scan of count_lines_parallel has been started for
ScanAttempted ==
    {small_log[k].path : k \in DOMAIN small_log}
    \cup {large_files[i].path : i \in {j \in DOMAIN large_state :
                                          large_state[j] # "todo"}}

\* C15: once count_lines_parallel has partitioned its input, every input
\* path whose metadata can be read is, as often as it is in the input, in
\* exactly one group: the small group if its size is strictly below
\* PARALLEL_THRESHOLD, the large group if it is at or above it; a path whose
\* metadata cannot be read is in neither group and is never scanned.
C15_Partition ==
    Partitioned =>
        /\ \A i \in DOMAIN small_files : small_files[i].path \in RelPaths
        /\ \A i \in DOMAIN large_files : large_files[i].path \in RelPaths
        /\ \A p \in RelPaths :
              LET n_small == Occurrences(p, PathsOf(small_files))
                  n_large == Occurrences(p, PathsOf(large_files))
              IN  IF ~MetadataReadable(p)
                  THEN n_small = 0 /\ n_large = 0 /\ p \notin ScanAttempted
                  ELSE IF SizeOfPath(p) < PARALLEL_THRESHOLD
                       THEN n_small = Occurrences(p, input) /\ n_large = 0
                       ELSE n_large = Occurrences(p, input) /\ n_small = 0

\* C15 witness: a call has returned on an input that holds a file of
\* exactly the threshold size and a path without metadata
C15_Witness ==
    /\ Returned(par_summary)
    /\ \E i \in DOMAIN large_files : large_files[i].size = PARALLEL_THRESHOLD
    /\ \E i \in DOMAIN input : ~MetadataReadable(input[i])
    /\ Len(input) > Len(small_files) + Len(large_files)

---------------------------------------------------------------------------
(* C16 *)

\* C16: from the partitioning on, hence before any large scan is submitted,
\* the large group is ordered by size descending (every entry is at least
\* as large as the next) and is a permutation of the input paths
\* classified as large, each with the size of its file.
C16_LargeSorted ==
    Partitioned =>
        /\ \A i \in 1..(Len(large_files) - 1) :
              large_files[i].size >= large_files[i + 1].size
        /\ \A i \in DOMAIN large_files :
              large_files[i].size = SizeOfPath(large_files[i].path)
        /\ \A p \in RelPaths :
              Occurrences(p, PathsOf(large_files)) =
                  IF MetadataReadable(p) /\ SizeOfPath(p) >= PARALLEL_THRESHOLD
                  THEN Occurrences(p, input)
                  ELSE 0

\* C16 witness: no large scan has been submitted yet, and the input names
\* a large file before a larger one
C16_Witness ==
    /\ pc = "par"
    /\ \A i \in DOMAIN large_state : large_state[i] = "todo"
    /\ \E i, j \in DOMAIN input :
          /\ i < j
          /\ MetadataReadable(input[i]) /\ MetadataReadable(input[j])
          /\ SizeOfPath(input[i]) >= PARALLEL_THRESHOLD
          /\ SizeOfPath(input[i]) < SizeOfPath(input[j])
    /\ Len(large_files) >= 2
    /\ large_files[1].size > large_files[Len(large_files)].size

---------------------------------------------------------------------------
(* C17 *)

\* C17: the small group is the input's small paths in their input order,
\* and the scanner calls made for it so far are, entry by entry in that
\* order, one start followed by its finish: no entry is scanned twice
\* (a failed one is not retried), none starts before the previous has
\* finished, and at the return every entry has been scanned.
C17_SmallSequential ==
    Partitioned =>
        /\ PathsOf(small_files) =
              SelectSeq(input, LAMBDA p : /\ MetadataReadable(p)
                                          /\ SizeOfPath(p) < PARALLEL_THRESHOLD)
        /\ small_next \in 1..(Len(small_files) + 1)
        /\ Len(small_log) = 2 * (small_next - 1)
        /\ \A k \in 1..(small_next - 1) :
              /\ small_log[2 * k - 1] = ScanEvent("start", k, small_files[k].path)
              /\ small_log[2 * k] = ScanEvent("finish", k, small_files[k].path)
        /\ Returned(par_summary) => small_next = Len(small_files) + 1

\* C17 witness: a call has returned whose small group had a failing entry
\* before a successful one
C17_Witness ==
    /\ Returned(par_summary)
    /\ Len(small_files) >= 2
    /\ ~ScannablePath(small_files[1].path)
    /\ ScannablePath(small_files[2].path)
    /\ Len(small_counts) = Len(small_files) - 1

---------------------------------------------------------------------------
(* C20 *)

\* the results of the large group, in the order of the group
RECURSIVE LargeResults(_)
LargeResults(k) ==
    IF k = 0 THEN <<>> ELSE LargeResults(k - 1) \o large_out[k]

AllScansDone ==
    /\ small_next > Len(small_files)
    /\ \A i \in DOMAIN large_state : large_state[i] = "done"

\* C20: during a call of count_lines_parallel, a step that adds to the
\* small results leaves everything of the large path unchanged, a step
\* that writes a large result leaves everything of the small path
\* unchanged, and the summary is built only in a state where every small
\* and every large scan has completed, from the small results followed by
\* the large ones, with total_lines and file_count derived from them.
C20_CombinedAfterBoth ==
    [][pc = "par" =>
        /\ small_counts' # small_counts =>
              UNCHANGED <<large_files, large_state, large_out, completed,
                          mappings>>
        /\ (large_out' # large_out \/ large_state' # large_state) =>
              UNCHANGED <<small_files, small_next, small_counts, small_log>>
        /\ par_summary' # par_summary =>
              /\ AllScansDone
              /\ par_summary'[1].files =
                    small_counts \o LargeResults(Len(large_out))
              /\ SummaryConsistent(par_summary'[1])]_vars

\* C20 witness: a summary has been returned that holds results of both
\* the small and the large path
C20_Witness ==
    /\ Returned(par_summary)
    /\ small_counts # <<>>
    /\ Len(par_summary[1].files) > Len(small_counts)

---------------------------------------------------------------------------
(* C18 *)

\* the positions of the calls of one kind in the last call of count_lines
CallsOf(op) == {k \in DOMAIN calls : calls[k].op = op}

\* the last call of count_lines got the size of its file
SizeKnown == \E k \in CallsOf("metadata") : calls[k].ok

\* C18: a call of count_lines that got the size of its file mapped the
\* file if and only if the size is strictly above MMAP_THRESHOLD, and read
\* it through the buffer if and only if the size is at or below it (the
\* empty file included); whatever the outcome, every read and every map
\* comes after the successful metadata call.
C18_StrategyBySize ==
    Called =>
        LET size == NumBytes(CalledFile.content)
        IN  /\ SizeKnown =>
                  /\ CallsOf("map") # {} <=> size > MMAP_THRESHOLD
                  /\ CallsOf("read") # {} <=> size <= MMAP_THRESHOLD
            /\ \A k \in CallsOf("map") \cup CallsOf("read") \cup CallsOf("scan") :
                  \E j \in CallsOf("metadata") : j < k /\ calls[j].ok
            /\ (CalledFile.mode = "mmaperr") =>
                  (Result.tag = "Err" <=> size > MMAP_THRESHOLD)

\* C18 witness: a file of exactly the threshold size, which could not have
\* been mapped, was counted through the buffer
C18_Witness ==
    /\ Called
    /\ NumBytes(CalledFile.content) = MMAP_THRESHOLD
    /\ CalledFile.mode = "mmaperr"
    /\ Result.tag = "Ok"
    /\ CallsOf("read") # {}
    /\ CallsOf("map") = {}

---------------------------------------------------------------------------
(* C19 *)

\* C19: a memory map exists only while the scan that made it runs: every
\* map of count_lines_parallel belongs to a large scan that is running,
\* no two maps belong to one scan and no map to two, none is left when the
\* call has returned, and no call of count_lines on a file of the file
\* system, whether it returns a count or an error, leaves its map behind.
C19_MappingScoped ==
    /\ \A m \in mappings :
          /\ m.owner \in Running
          /\ m.file = Resolve(Join(Base, large_files[m.owner].path))
    /\ \A m1, m2 \in mappings : m1.owner = m2.owner => m1 = m2
    /\ pc # "par" => mappings = {}
    /\ \A p \in RelPaths : ~leaves_mapping(fs, Base, p)

\* C19 witness: two scans run at once on the same file, each with its own
\* map of it
C19_Witness ==
    /\ pc = "par"
    /\ \E m1, m2 \in mappings : m1.owner # m2.owner /\ m1.file = m2.file

---------------------------------------------------------------------------
(* C11 *)

LargeDone(i) == i \in DOMAIN large_state /\ large_state[i] = "done"

\* C11: under a fair scheduler, a call of count_lines_parallel in flight
\* eventually returns its summary, and every large entry of it is
\* eventually scanned to completion, its scan failing or not; the step
\* that completes one scan changes nothing of another scan, and the call
\* leaves its flight only by returning the summary with every scan
\* completed.
C11_EveryScanCompletes ==
    /\ (pc = "par") ~> Returned(par_summary)
    /\ \A i \in 1..MaxFiles :
          (pc = "par" /\ i \in DOMAIN large_state) ~> LargeDone(i)
    /\ [][\A i \in Running :
             large_state'[i] = "done" =>
                \A j \in DOMAIN large_state \ {i} :
                    /\ large_state'[j] = large_state[j]
                    /\ large_out'[j] = large_out[j]]_vars
    /\ [][pc = "par" /\ pc' # "par" =>
             AllScansDone /\ Returned(par_summary')]_vars

\* C11 witness: a call has returned after a large scan failed, the scan
\* submitted first completing after another one
C11_Witness ==
    /\ Returned(par_summary)
    /\ Len(large_files) >= 2
    /\ \E i \in DOMAIN large_out : large_out[i] = NoneOpt
    /\ \E i \in DOMAIN large_out : large_out[i] # NoneOpt
    /\ completed[1] # 1

---------------------------------------------------------------------------
(* C13 *)

\* the entries of files that the filter counts, by position
KeptPositions(files) == {i \in DOMAIN files : should_count(filter, files[i])}

\* files restricted to those positions, in increasing order of position
Kept(files) ==
    LET pos == KeptPositions(files)
        nth(k) == CHOOSE i \in pos : Cardinality({j \in pos : j < i}) = k - 1
    IN  [k \in 1..Cardinality(pos) |-> files[nth(k)]]

\* C13: what filter_files returns is the input restricted to the paths for
\* which should_count is true: the same paths, as often, in the same
\* relative order; and for its own output it returns that output.
C13_FilterFiles ==
    /\ filtered # NoneOpt =>
          /\ filtered[1] = Kept(listed)
          /\ \A p \in ListedPaths :
                Occurrences(p, filtered[1]) =
                    IF should_count(filter, p) THEN Occurrences(p, listed)
                    ELSE 0
    /\ refiltered # NoneOpt => refiltered[1] = filtered[1]

\* C13 witness: a list with a path twice and an excluded path between was
\* filtered, and the result filtered again
C13_Witness ==
    /\ refiltered # NoneOpt
    /\ Len(listed) = 3
    /\ listed[1] = listed[3]
    /\ listed[1] # listed[2]
    /\ filtered[1] = <<listed[1], listed[3]>>

---------------------------------------------------------------------------
(* C14 *)

\* char::to_uppercase on the letters that occur
Uppercase ==
    ("a" :> "A") @@ ("b" :> "B") @@ ("c" :> "C") @@ ("d" :> "D")
    @@ ("e" :> "E") @@ ("f" :> "F") @@ ("g" :> "G") @@ ("h" :> "H")
    @@ ("i" :> "I") @@ ("j" :> "J") @@ ("k" :> "K") @@ ("l" :> "L")
    @@ ("m" :> "M") @@ ("n" :> "N") @@ ("o" :> "O") @@ ("p" :> "P")
    @@ ("q" :> "Q") @@ ("r" :> "R") @@ ("s" :> "S") @@ ("t" :> "T")
    @@ ("u" :> "U") @@ ("v" :> "V") @@ ("w" :> "W") @@ ("x" :> "X")
    @@ ("y" :> "Y") @@ ("z" :> "Z")

Upper(c) == IF c \in DOMAIN Uppercase THEN Uppercase[c] ELSE c

\* two strings that differ at most in the case of their letters
SameIgnoringCase(a, b) ==
    /\ Len(a) = Len(b)
    /\ \A i \in DOMAIN a : Upper(a[i]) = Upper(b[i])

\* the path names a file: it has a last component, other than ".."
HasFileName(p) ==
    \E i \in DOMAIN p : p[i] # "." /\ \A j \in (i + 1)..Len(p) : p[j] = "."

FinalComponent(p) ==
    p[CHOOSE i \in DOMAIN p : p[i] # "." /\ \A j \in (i + 1)..Len(p) : p[j] = "."]

\* s is the extension of the name: name = stem.s with a non-empty stem and
\* no '.' in s
IsExtensionOf(s, name) ==
    \E k \in 2..Len(name) :
        /\ name[k] = "."
        /\ s = SubSeq(name, k + 1, Len(name))
        /\ \A j \in DOMAIN s : s[j] # "."

SeqRange(seq) == {seq[i] : i \in DOMAIN seq}

ExcludedFilenames ==
    SeqRange(EXCLUDED_FILENAMES) \cup SeqRange(filter.extra_excluded_filenames)

ExcludedExtensions ==
    SeqRange(MEDIA_EXTENSIONS) \cup SeqRange(DATA_EXTENSIONS)
    \cup SeqRange(DOC_EXTENSIONS) \cup SeqRange(filter.extra_excluded_extensions)

FilenameExcluded(p) ==
    /\ HasFileName(p)
    /\ FinalComponent(p) \notin {"..", "/"}
    /\ FinalComponent(p) \in ExcludedFilenames

ExtensionExcluded(p) ==
    /\ HasFileName(p)
    /\ FinalComponent(p) \notin {"..", "/"}
    /\ LET name == chars(FinalComponent(p))
       IN  \E e \in ExcludedExtensions, k \in 2..Len(name) :
               /\ IsExtensionOf(SubSeq(name, k + 1, Len(name)), name)
               /\ SameIgnoringCase(chars(e), SubSeq(name, k + 1, Len(name)))

\* C14: should_count returns false exactly when the file name of the path
\* is, letter for letter, one of the excluded file names (built in or
\* added), or the extension of the path is, up to the case of its letters,
\* one of the excluded extensions (built in or added); it returns true in
\* every other case, a path without an extension included.
C14_ShouldCount ==
    verdict # NoneOpt =>
        (verdict[1].counted = FALSE
            <=> (FilenameExcluded(verdict[1].path)
                 \/ ExtensionExcluded(verdict[1].path)))

\* C14 witness: a path whose extension differs in case from an extension
\* that was added is not counted
C14_Witness ==
    /\ verdict # NoneOpt
    /\ verdict[1].path = <<"debug.Log">>
    /\ filter.extra_excluded_extensions = <<"LOG">>
    /\ verdict[1].counted = FALSE

---------------------------------------------------------------------------
(* C12 *)

ListingFails ==
    \/ ~git_output.spawned
    \/ ~git_output.success
    \/ ~git_output.valid_utf8

\* C12: count_repository_with_filter returns an error only if the listing
\* fails, with the error of the failure (Git, NotAGitRepository or Utf8);
\* if the listing succeeds it returns Ok whatever happens to the files, and
\* every path of the summary is a line of the listing for which
\* should_count is true.
C12_RepositoryResult ==
    repo_ret # NoneOpt =>
        IF ListingFails
        THEN /\ repo_ret[1].tag = "Err"
             /\ repo_ret[1].err.kind =
                   IF ~git_output.spawned THEN "Git"
                   ELSE IF ~git_output.success
                        THEN IF git_output.stderr = "not a git repository"
                             THEN "NotAGitRepository"
                             ELSE "Git"
                        ELSE "Utf8"
        ELSE /\ repo_ret[1].tag = "Ok"
             /\ \A i \in DOMAIN repo_ret[1].val.files :
                   LET p == repo_ret[1].val.files[i].path
                   IN  /\ \E k \in DOMAIN git_output.lines :
                             git_output.lines[k] = p
                       /\ p # <<>>
                       /\ should_count(filter, p)

\* C12 witness: Ok was returned for a listing with an excluded file, an
\* empty line and a counted file, with the counted file in the summary
C12_Witness ==
    /\ repo_ret # NoneOpt
    /\ repo_ret[1].tag = "Ok"
    /\ \E k \in DOMAIN git_output.lines : git_output.lines[k] = <<>>
    /\ \E k \in DOMAIN git_output.lines :
          /\ git_output.lines[k] # <<>>
          /\ ~should_count(filter, git_output.lines[k])
    /\ Len(repo_ret[1].val.files) = 1

---------------------------------------------------------------------------
(* C21 *)

\* the '\n' bytes among the first pos bytes of S
RECURSIVE NewlinesBefore(_, _)
NewlinesBefore(S, pos) ==
    IF pos <= 0 \/ S = <<>> THEN 0
    ELSE LET in_run == IF pos < S[1].n THEN pos ELSE S[1].n
         IN  (IF S[1].b = NL THEN in_run ELSE 0)
             + NewlinesBefore(Tail(S), pos - S[1].n)

\* the byte of S at position pos, counted from 1
RECURSIVE ByteAt(_, _)
ByteAt(S, pos) ==
    IF pos <= S[1].n THEN S[1].b ELSE ByteAt(Tail(S), pos - S[1].n)

\* the reads of the last call of count_lines, in order
ReadsMade == SelectSeq(calls, LAMBDA e : e.op = "read")

\* the file position after the first k reads
RECURSIVE PositionAfter(_, _)
PositionAfter(reads, k) ==
    IF k = 0 THEN 0 ELSE PositionAfter(reads, k - 1) + reads[k].n

\* the sum, over the first k reads, of the '\n' bytes of the chunk read
RECURSIVE ChunkNewlines(_, _, _)
ChunkNewlines(S, reads, k) ==
    IF k = 0 THEN 0
    ELSE ChunkNewlines(S, reads, k - 1)
         + (NewlinesBefore(S, PositionAfter(reads, k))
            - NewlinesBefore(S, PositionAfter(reads, k - 1)))

\* C21: whenever the buffered strategy returns a count, its reads divide
\* the content into consecutive non-empty chunks followed by one read of
\* zero bytes, at which the loop stops; the '\n' counts of the chunks,
\* summed, plus 1 if the last byte of the last chunk is not '\n', are the
\* count returned, and that is the count of the content scanned in one
\* piece, whatever the lengths of the reads were.
C21_ChunkingInvariant ==
    (Called /\ Result.tag = "Ok" /\ ReadsMade # <<>>) =>
        LET S     == CalledFile.content
            reads == ReadsMade
            n     == Len(reads)
            total == PositionAfter(reads, n)
        IN  /\ \A k \in 1..(n - 1) : reads[k].ok /\ reads[k].n > 0
            /\ reads[n].ok /\ reads[n].n = 0
            /\ calls[Len(calls)] = reads[n]
            /\ total = NumBytes(S)
            /\ Result.val =
                  ChunkNewlines(S, reads, n)
                  + (IF total > 0 /\ ByteAt(S, total) # NL THEN 1 ELSE 0)
            /\ count_lines_buffered(Readable(S), <<>>, <<>>) = Ok(Result.val)

\* C21 witness: a count was returned after the content was read in at
\* least two non-empty chunks, the first chunk ending between a '\r' and
\* the '\n' after it
C21_Witness ==
    /\ Called
    /\ Result.tag = "Ok"
    /\ Len(ReadsMade) >= 3
    /\ ReadsMade[1].n >= 1
    /\ NumBytes(CalledFile.content) > ReadsMade[1].n
    /\ ByteAt(CalledFile.content, ReadsMade[1].n) = CR
    /\ ByteAt(CalledFile.content, ReadsMade[1].n + 1) = NL
    /\ arg[1].sched # <<>>

---------------------------------------------------------------------------
(* C22 *)

\* the entries count_lines_parallel is to return, as the input and the
\* files on disk alone determine them
ExpectedEntries ==
    LET order == SmallSuccesses \o BySizeDescending(LargeSuccesses)
    IN  [i \in DOMAIN order |->
            [path |-> order[i], lines |-> LinesOf(DiskFile(order[i]).content)]]

\* C22: the files sequence count_lines_parallel returns is determined by
\* the input and the files alone, the same under every interleaving of the
\* large-group scans and every order of their completion: each large scan's
\* result is held at the position its entry was submitted at, and the
\* sequence returned is the small-group entries in input order followed by
\* the large-group entries in submitted order (size descending, equal sizes
\* in input order), each with the lines of its file.
C22_Deterministic ==
    /\ \A i \in DOMAIN large_out :
          large_out[i] # NoneOpt => large_out[i][1].path = large_files[i].path
    /\ Returned(par_summary) =>
          /\ par_summary[1].files = ExpectedEntries
          /\ \A i, j \in DOMAIN large_files :
                (i < j) => large_files[i].size >= large_files[j].size

\* C22 witness: returned after two large scans of files of one size, under
\* different paths, both with a count, the one submitted second completing
\* first
C22_Witness ==
    /\ Returned(par_summary)
    /\ Len(large_files) = 2
    /\ large_files[1].size = large_files[2].size
    /\ large_files[1].path # large_files[2].path
    /\ completed = <<2, 1>>
    /\ Len(par_summary[1].files) = 2
    /\ input = <<large_files[1].path, large_files[2].path>>

---------------------------------------------------------------------------
(* C23 *)

\* the operations of a scan of path under the read schedule sched
OpsOf(path, sched) ==
    LET trace == count_lines_io(fs, Base, path, sched)
    IN  {trace[k].op : k \in DOMAIN trace}

\* C23: the threshold of the memory-mapped strategy is not below the one
\* that divides the groups, so, the files staying as they were when the
\* batch was divided, no scan of a small-group entry maps its file, under
\* any schedule of reads; every map held during the call belongs to the
\* scan of a large-group entry whose file is above the mapping threshold,
\* and every path of the input whose scan maps its file is in the large
\* group.
C23_SmallNeverMapped ==
    /\ PARALLEL_THRESHOLD <= MMAP_THRESHOLD
    /\ \A k \in DOMAIN small_files :
          /\ small_files[k].size <= MMAP_THRESHOLD
          /\ \A sched \in BatchSchedules :
                OpsOf(small_files[k].path, sched) \cap {"map", "unmap"} = {}
    /\ \A m \in mappings :
          /\ m.owner \in DOMAIN large_files
          /\ large_files[m.owner].size > MMAP_THRESHOLD
    /\ Partitioned =>
          \A k \in DOMAIN input :
              makes_mapping(fs, Base, input[k]) =>
                  \E i \in DOMAIN large_files : large_files[i].path = input[k]

\* C23 witness: the small group's scan of a file with lines has returned a
\* count by reads, and the scan of a large entry holds a map of its file
C23_Witness ==
    /\ pc = "par"
    /\ small_next = Len(small_files) + 1
    /\ \E k \in DOMAIN small_files :
          /\ small_files[k].size > 0
          /\ "read" \in OpsOf(small_files[k].path, <<>>)
          /\ \E c \in DOMAIN small_counts :
                small_counts[c].path = small_files[k].path
    /\ mappings # {}

---------------------------------------------------------------------------
(* C24 *)

\* the file at p is read by the buffered strategy, and a read of it fails
\* after bytes of it have been read
FailsAfterChunk(p) ==
    LET f == DiskFile(p)
    IN  /\ f.mode = "readerr"
        /\ f.errAt > 0
        /\ NumBytes(f.content) <= MMAP_THRESHOLD

\* the lines of the input's first k paths whose files can be scanned
RECURSIVE ScannableLines(_)
ScannableLines(k) ==
    IF k = 0 THEN 0
    ELSE ScannableLines(k - 1)
         + (IF ScannablePath(input[k])
            THEN LinesOf(DiskFile(input[k]).content) ELSE 0)

\* summary has no entry for any of the input's paths at the positions ks,
\* and counts the files that can be scanned, and their lines, only
NoPartOf(ks, summary) ==
    /\ \A i \in DOMAIN summary.files :
          \A k \in ks : summary.files[i].path # input[k]
    /\ summary.total_lines = ScannableLines(Len(input))
    /\ summary.file_count =
          Cardinality({k \in DOMAIN input : ScannablePath(input[k])})

\* C24: for a file whose read fails after chunks of it were read and
\* counted, count_lines returns under every schedule of reads an I/O error
\* naming the path and no count, its last operation being the failed read,
\* after a read that returned bytes; in the summaries of
\* count_lines_parallel and count_lines_sequential such a file has no
\* entry and adds nothing to total_lines or file_count.
C24_ReadErrorDiscardsCount ==
    LET failing == {k \in DOMAIN input : FailsAfterChunk(input[k])}
    IN  /\ \A k \in failing, sched \in BatchSchedules :
              LET r     == count_lines(fs, Base, input[k], sched)
                  trace == count_lines_io(fs, Base, input[k], sched)
              IN  /\ r.tag = "Err"
                  /\ r.err.kind = "Io"
                  /\ r.err.path = Join(Base, input[k])
                  /\ trace[Len(trace)].op = "read"
                  /\ ~trace[Len(trace)].ok
                  /\ \E j \in 1..(Len(trace) - 1) :
                        trace[j].op = "read" /\ trace[j].ok /\ trace[j].n > 0
        /\ (failing # {} /\ Returned(par_summary)) =>
              NoPartOf(failing, par_summary[1])
        /\ (failing # {} /\ Returned(seq_summary)) =>
              NoPartOf(failing, seq_summary[1])

\* C24 witness: both functions have returned for an input with a file
\* whose read fails after a chunk holding a '\n' was counted, and a file
\* with lines that was scanned
C24_Witness ==
    /\ Returned(par_summary)
    /\ Returned(seq_summary)
    /\ par_summary[1].total_lines > 0
    /\ seq_summary[1].total_lines > 0
    /\ \E k \in DOMAIN input :
          /\ FailsAfterChunk(input[k])
          /\ NewlinesBefore(DiskFile(input[k]).content, DiskFile(input[k]).errAt) > 0

===========================================================================
